---- MODULE Spec2Model ----
(***************************************************************************)
(* Model of src/coordinate_transform.rs: the CoordinateTransform enum, its *)
(* constructor from_tag_data and the two coordinate mappings               *)
(* transform_to_model / transform_to_raster.                               *)
(*                                                                         *)
(* f64 values are modelled by integers: from_tag_data only moves the       *)
(* values around, and the six transform helpers never look at them.        *)
(***************************************************************************)
EXTENDS Integers, Sequences, FiniteSets, TLC

VARIABLES pixel_scale_data, model_tie_points_data, model_transformation_data,
          pc, result, op, coordinate, outcome

vars == <<pixel_scale_data, model_tie_points_data, model_transformation_data,
          pc, result, op, coordinate, outcome>>

----------------------------------------------------------------------------
(* Bounds of the input space.                                              *)

MaxPixelScaleLen == 4
MaxTiePointsLen == 18
MaxTransformationLen == 17
MaxStart == 1
ValMod == 5

----------------------------------------------------------------------------
(* Rust's Option, Result and panics.                                       *)

None == [tag |-> "None"]
Some(v) == [tag |-> "Some", val |-> v]
Ok(v) == [tag |-> "Ok", val |-> v]
Err(e) == [tag |-> "Err", err |-> e]
Panic(m) == [tag |-> "Panic", msg |-> m]

is_some(o) == o.tag = "Some"
is_none(o) == o.tag = "None"
IsOk(r) == r.tag = "Ok"
IsErr(r) == r.tag = "Err"
IsPanic(r) == r.tag = "Panic"

MODEL_TIE_POINT_TAG == "ModelTiePointTag"
MODEL_PIXEL_SCALE_TAG == "ModelPixelScaleTag"
MODEL_TRANSFORMATION_TAG == "ModelTransformationTag"

\* TiffError::FormatError(TiffFormatError::Format(msg))
FormatError(m) == [kind |-> "TiffError::FormatError", format |-> "TiffFormatError::Format", msg |-> m]

\* <[f64; N]>::try_from(Vec<f64>): the array when the length is N, else the
\* vector handed back as the error.
try_from(data, n) == IF Len(data) = n THEN Ok(data) ELSE Err(data)

\* Result::unwrap
unwrap(r) == IF IsOk(r) THEN Ok(r.val) ELSE Panic("called Result::unwrap() on an Err value")

\* Option::map(f).transpose(): None -> Ok(None), Some(d) -> f(d) with the
\* Ok value wrapped in Some.  f is given as the already-computed f(d).
transpose(o, fd) == IF is_none(o) THEN Ok(None)
                    ELSE IF IsOk(fd) THEN Ok(Some(fd.val)) ELSE fd

\* todo!()
todo == Panic("not yet implemented")

----------------------------------------------------------------------------
(* The variants of CoordinateTransform.                                    *)

TiePointAndPixelScale(tie_point, pixel_scale) ==
    [variant |-> "TiePointAndPixelScale", tie_point |-> tie_point, pixel_scale |-> pixel_scale]
TiePoints(tie_points) == [variant |-> "TiePoints", tie_points |-> tie_points]
AffineTransform(transformation) == [variant |-> "AffineTransform", transformation |-> transformation]

----------------------------------------------------------------------------
(* from_tag_data                                                           *)

MsgPixelScaleLen ==
    "Number values in " \o MODEL_PIXEL_SCALE_TAG \o " must be equal to 3"
MsgTiePointsEmpty ==
    "Number of values in " \o MODEL_TIE_POINT_TAG \o " must be greater than 0"
MsgTiePointsDiv ==
    "Number of values in " \o MODEL_TIE_POINT_TAG \o " must be divisible by 6"
MsgTransformationLen ==
    "Number of values in " \o MODEL_TRANSFORMATION_TAG \o " must be equal to 16"
MsgPixelScaleWithTransformation ==
    MODEL_PIXEL_SCALE_TAG \o " must not be specified when " \o MODEL_TRANSFORMATION_TAG \o " is present"
MsgTiePointsWithTransformation ==
    MODEL_TIE_POINT_TAG \o " must not be specified when " \o MODEL_TRANSFORMATION_TAG \o " is present"
MsgTiePointsMissing ==
    MODEL_TIE_POINT_TAG \o " must be present when " \o MODEL_TRANSFORMATION_TAG \o " is missing"
MsgPixelScaleMissing ==
    MODEL_PIXEL_SCALE_TAG \o " must be specified when " \o MODEL_TIE_POINT_TAG \o " contains 6 values"

\* closure of lines 21-27
check_pixel_scale(data) ==
    IF IsOk(try_from(data, 3)) THEN Ok(data)
    ELSE Err(FormatError(MsgPixelScaleLen))

\* a validator that forgets the emptiness test
check_tie_points_no_empty_test(data) ==
    LET len == Len(data) IN
    IF len % 6 # 0 THEN Err(FormatError(MsgTiePointsDiv))
    ELSE Ok(data)

\* closure of lines 30-45
check_tie_points(data) ==
    LET len == Len(data) IN
    IF len = 0 THEN Err(FormatError(MsgTiePointsEmpty))
    ELSE IF len % 6 # 0 THEN Err(FormatError(MsgTiePointsDiv))
    ELSE Ok(data)

\* closure of lines 48-54
check_transformation(data) ==
    IF IsOk(try_from(data, 16)) THEN Ok(data)
    ELSE Err(FormatError(MsgTransformationLen))

\* the Some(transformation) branch without the tie point exclusion
with_transformation_no_tie_point_test(transformation, pixel_scale, tie_points) ==
    IF is_some(pixel_scale) THEN Err(FormatError(MsgPixelScaleWithTransformation))
    ELSE Ok(AffineTransform(transformation))

\* lines 57-68: the Some(transformation) branch
with_transformation(transformation, pixel_scale, tie_points) ==
    IF is_some(pixel_scale) THEN Err(FormatError(MsgPixelScaleWithTransformation))
    ELSE IF is_some(tie_points) THEN Err(FormatError(MsgTiePointsWithTransformation))
    ELSE Ok(AffineTransform(transformation))

\* a single tie point whose missing scale is defaulted to [1, 1, 1]
single_tie_point_default_scale(tie_points, pixel_scale) ==
    LET tie_point == unwrap(try_from(tie_points, 6)) IN
    IF IsPanic(tie_point) THEN tie_point
    ELSE IF is_none(pixel_scale) THEN Ok(TiePointAndPixelScale(tie_point.val, <<1, 1, 1>>))
    ELSE Ok(TiePointAndPixelScale(tie_point.val, pixel_scale.val))

\* lines 77-86: the body of `if tie_points.len() == 6`
single_tie_point(tie_points, pixel_scale) ==
    LET tie_point == unwrap(try_from(tie_points, 6)) IN
    IF IsPanic(tie_point) THEN tie_point
    ELSE IF is_none(pixel_scale) THEN Err(FormatError(MsgPixelScaleMissing))
    ELSE Ok(TiePointAndPixelScale(tie_point.val, pixel_scale.val))

\* the else branch choosing by the presence of the scale first
without_transformation_scale_first(pixel_scale, tie_points) ==
    IF is_none(tie_points) THEN Err(FormatError(MsgTiePointsMissing))
    ELSE IF is_some(pixel_scale)
         THEN Ok(TiePointAndPixelScale(SubSeq(tie_points.val, 1, 6), pixel_scale.val))
    ELSE IF Len(tie_points.val) = 6 THEN Err(FormatError(MsgPixelScaleMissing))
    ELSE Ok(TiePoints(tie_points.val))

\* the else branch falling back to TiePoints when the scale is missing
without_transformation_fallback(pixel_scale, tie_points) ==
    IF is_none(tie_points) THEN Err(FormatError(MsgTiePointsMissing))
    ELSE IF Len(tie_points.val) = 6 /\ is_some(pixel_scale)
         THEN single_tie_point(tie_points.val, pixel_scale)
    ELSE Ok(TiePoints(tie_points.val))

\* the else branch with the length test `>= 6`
without_transformation_ge(pixel_scale, tie_points) ==
    IF is_none(tie_points) THEN Err(FormatError(MsgTiePointsMissing))
    ELSE IF Len(tie_points.val) >= 6 THEN single_tie_point(tie_points.val, pixel_scale)
    ELSE Ok(TiePoints(tie_points.val))

\* lines 69-90: the else branch (transformation is None)
without_transformation(pixel_scale, tie_points) ==
    IF is_none(tie_points) THEN Err(FormatError(MsgTiePointsMissing))
    ELSE IF Len(tie_points.val) = 6 THEN single_tie_point(tie_points.val, pixel_scale)
    ELSE Ok(TiePoints(tie_points.val))

\* lines 57-90: the final if/else over the three validated options
select_variant(pixel_scale, tie_points, transformation) ==
    IF is_some(transformation)
    THEN with_transformation(transformation.val, pixel_scale, tie_points)
    ELSE without_transformation(pixel_scale, tie_points)

\* from_tag_data validating the transformation before the tie points
from_tag_data_transformation_first(psd, tpd, trd) ==
    LET pixel_scale == transpose(psd, IF is_some(psd) THEN check_pixel_scale(psd.val) ELSE None) IN
    IF ~IsOk(pixel_scale) THEN pixel_scale ELSE
    LET transformation == transpose(trd, IF is_some(trd) THEN check_transformation(trd.val) ELSE None) IN
    IF ~IsOk(transformation) THEN transformation ELSE
    LET tie_points == transpose(tpd, IF is_some(tpd) THEN check_tie_points(tpd.val) ELSE None) IN
    IF ~IsOk(tie_points) THEN tie_points ELSE
    select_variant(pixel_scale.val, tie_points.val, transformation.val)

\* lines 15-91; each `?` returns the error at once
from_tag_data(psd, tpd, trd) ==
    LET pixel_scale == transpose(psd, IF is_some(psd) THEN check_pixel_scale(psd.val) ELSE None) IN
    IF ~IsOk(pixel_scale) THEN pixel_scale ELSE
    LET tie_points == transpose(tpd, IF is_some(tpd) THEN check_tie_points(tpd.val) ELSE None) IN
    IF ~IsOk(tie_points) THEN tie_points ELSE
    LET transformation == transpose(trd, IF is_some(trd) THEN check_transformation(trd.val) ELSE None) IN
    IF ~IsOk(transformation) THEN transformation ELSE
    select_variant(pixel_scale.val, tie_points.val, transformation.val)

----------------------------------------------------------------------------
(* The transformer.  All six helpers are todo!() in the source.            *)

transform_to_model_by_tie_point_and_pixel_scale(tie_point, pixel_scale, c) == todo
transform_to_model_by_tie_points(tie_points, c) == todo
transform_to_model_by_transformation_matrix(transformation_matrix, c) == todo
transform_to_raster_by_tie_point_and_pixel_scale(tie_point, pixel_scale, c) == todo
transform_to_raster_by_tie_points(tie_points, c) == todo
transform_to_raster_by_affine_transform(transformation_matrix, c) == todo

\* lines 93-109
transform_to_model(self, c) ==
    CASE self.variant = "TiePointAndPixelScale" ->
            transform_to_model_by_tie_point_and_pixel_scale(self.tie_point, self.pixel_scale, c)
      [] self.variant = "TiePoints" ->
            transform_to_model_by_tie_points(self.tie_points, c)
      [] self.variant = "AffineTransform" ->
            transform_to_model_by_transformation_matrix(self.transformation, c)

\* lines 111-127
transform_to_raster(self, c) ==
    CASE self.variant = "TiePointAndPixelScale" ->
            transform_to_raster_by_tie_point_and_pixel_scale(self.tie_point, self.pixel_scale, c)
      [] self.variant = "TiePoints" ->
            transform_to_raster_by_tie_points(self.tie_points, c)
      [] self.variant = "AffineTransform" ->
            transform_to_raster_by_affine_transform(self.transformation, c)

----------------------------------------------------------------------------
(* Inputs: every length up to the bound, with contents that are all zero   *)
(* or a ramp (so that positions are distinguishable), plus the literal     *)
(* vectors of the acceptance cases.                                        *)

Ramp(n, start) == [i \in 1..n |-> (start + i - 1) % ValMod]
Zeros(n) == [i \in 1..n |-> 0]
Contents(maxLen) == {Zeros(n) : n \in 0..maxLen}
                    \cup {Ramp(n, s) : n \in 0..maxLen, s \in 0..MaxStart}

LitTiePoint == <<0, 0, 0, 100, 200, 0>>
LitPixelScale == <<2, 2, 0>>
IdentityMatrix == <<1, 0, 0, 0,  0, 1, 0, 0,  0, 0, 1, 0,  0, 0, 0, 1>>

Opt(S) == {None} \cup {Some(s) : s \in S}

PixelScaleInputs == Opt(Contents(MaxPixelScaleLen) \cup {LitPixelScale})
TiePointsInputs == Opt(Contents(MaxTiePointsLen) \cup {LitTiePoint})
TransformationInputs == Opt(Contents(MaxTransformationLen) \cup {IdentityMatrix})

RasterCoordinates == {<<0, 0>>, <<5, 7>>, <<10, 10>>}
ModelCoordinates == {<<0, 0>>, <<5, 7>>, <<120, 180>>}

NoCall == [tag |-> "NoCall"]

----------------------------------------------------------------------------
(* The state machine: the tag decoder hands over three optional arrays,    *)
(* from_tag_data is called once, and the resulting value is then used for  *)
(* coordinate mappings until one of them panics.                           *)

Init ==
    /\ pixel_scale_data \in PixelScaleInputs
    /\ model_tie_points_data \in TiePointsInputs
    /\ model_transformation_data \in TransformationInputs
    /\ pc = "start"
    /\ result = NoCall
    /\ op = "none"
    /\ coordinate = <<>>
    /\ outcome = NoCall

FromTagData ==
    /\ pc = "start"
    /\ result' = from_tag_data(pixel_scale_data, model_tie_points_data, model_transformation_data)
    /\ pc' = IF IsOk(result') THEN "built" ELSE IF IsErr(result') THEN "failed" ELSE "panicked"
    /\ UNCHANGED <<pixel_scale_data, model_tie_points_data, model_transformation_data,
                   op, coordinate, outcome>>

TransformToModel ==
    /\ pc = "built"
    /\ \E c \in RasterCoordinates :
          /\ op' = "transform_to_model"
          /\ coordinate' = c
          /\ outcome' = transform_to_model(result.val, c)
    /\ pc' = IF IsPanic(outcome') THEN "panicked" ELSE "built"
    /\ UNCHANGED <<pixel_scale_data, model_tie_points_data, model_transformation_data, result>>

TransformToRaster ==
    /\ pc = "built"
    /\ \E c \in ModelCoordinates :
          /\ op' = "transform_to_raster"
          /\ coordinate' = c
          /\ outcome' = transform_to_raster(result.val, c)
    /\ pc' = IF IsPanic(outcome') THEN "panicked" ELSE "built"
    /\ UNCHANGED <<pixel_scale_data, model_tie_points_data, model_transformation_data, result>>

Next == FromTagData \/ TransformToModel \/ TransformToRaster

Spec == Init /\ [][Next]_vars

----------------------------------------------------------------------------
(* Vocabulary of the properties.                                           *)

Called == pc # "start"

PsLen == Len(pixel_scale_data.val)
TpLen == Len(model_tie_points_data.val)
TrLen == Len(model_transformation_data.val)

PsPresent == is_some(pixel_scale_data)
TpPresent == is_some(model_tie_points_data)
TrPresent == is_some(model_transformation_data)

PsLegal == PsPresent => PsLen = 3
TpLegal == TpPresent => (TpLen > 0 /\ TpLen % 6 = 0)
TrLegal == TrPresent => TrLen = 16

CaseAffine == TrPresent /\ TrLen = 16 /\ ~PsPresent /\ ~TpPresent
CaseSingle == ~TrPresent /\ TpPresent /\ TpLen = 6 /\ PsPresent /\ PsLen = 3
CaseMulti == ~TrPresent /\ TpPresent /\ TpLen >= 12 /\ TpLen % 6 = 0 /\ PsLegal

\* a value a transform function returns, a computation error it reports
Returned(v) == [tag |-> "Return", val |-> v]
ComputationError == [tag |-> "ComputationError"]

Abs(x) == IF x < 0 THEN -x ELSE x

\* determinant of a row-major 4x4 matrix, by cofactor expansion
M(m, r, c) == m[4 * (r - 1) + c]
Det3(m, R, C) ==
      M(m, R[1], C[1]) * (M(m, R[2], C[2]) * M(m, R[3], C[3]) - M(m, R[2], C[3]) * M(m, R[3], C[2]))
    - M(m, R[1], C[2]) * (M(m, R[2], C[1]) * M(m, R[3], C[3]) - M(m, R[2], C[3]) * M(m, R[3], C[1]))
    + M(m, R[1], C[3]) * (M(m, R[2], C[1]) * M(m, R[3], C[2]) - M(m, R[2], C[2]) * M(m, R[3], C[1]))
Det4(m) ==
      M(m, 1, 1) * Det3(m, <<2, 3, 4>>, <<2, 3, 4>>)
    - M(m, 1, 2) * Det3(m, <<2, 3, 4>>, <<1, 3, 4>>)
    + M(m, 1, 3) * Det3(m, <<2, 3, 4>>, <<1, 2, 4>>)
    - M(m, 1, 4) * Det3(m, <<2, 3, 4>>, <<1, 2, 3>>)

Variant(name) == IsOk(result) /\ result.val.variant = name

Degenerate ==
    \/ Variant("AffineTransform") /\ Det4(result.val.transformation) = 0
    \/ Variant("TiePointAndPixelScale")
         /\ (result.val.pixel_scale[1] = 0 \/ result.val.pixel_scale[2] = 0)

NonDegenerate ==
    \/ Variant("AffineTransform") /\ Det4(result.val.transformation) # 0
    \/ Variant("TiePointAndPixelScale")
         /\ result.val.pixel_scale[1] # 0 /\ result.val.pixel_scale[2] # 0

----------------------------------------------------------------------------
(* Properties of from_tag_data.                                            *)

\* C1: with legal lengths and the presence rules satisfied, from_tag_data
\* returns Ok with the variant chosen by the precedence transformation >
\* single tie point + scale > multiple tie points, carrying the input values
\* unchanged and in order.
Thm_C1_VariantPrecedence ==
    Called =>
      /\ CaseAffine => result = Ok(AffineTransform(model_transformation_data.val))
      /\ CaseSingle => result = Ok(TiePointAndPixelScale(model_tie_points_data.val,
                                                         pixel_scale_data.val))
      /\ CaseMulti => result = Ok(TiePoints(model_tie_points_data.val))

Wit_C1_MultiWithScale ==
    /\ pc = "built"
    /\ CaseMulti /\ PsPresent /\ TpLen = 18
    /\ result = Ok(TiePoints(model_tie_points_data.val))
    /\ model_tie_points_data.val[1] # model_tie_points_data.val[2]

\* C2: when the transformation is present, Ok is returned only if both the
\* pixel scale and the tie points are absent; with either of them present
\* the call returns an error, never a variant.
Thm_C2_MutualExclusion ==
    (Called /\ TrPresent) =>
      /\ IsOk(result) => (~PsPresent /\ ~TpPresent)
      /\ (PsPresent \/ TpPresent) => IsErr(result)

Wit_C2_TransformationWithTiePoints ==
    /\ pc = "failed"
    /\ TrPresent /\ TrLen = 16 /\ TpPresent /\ TpLegal /\ ~PsPresent
    /\ result = Err(FormatError(MsgTiePointsWithTransformation))

\* C3: a present tag of illegal length is rejected whatever the other two
\* tags are.
Thm_C3_ShapeRejection ==
    (Called /\ (~PsLegal \/ ~TpLegal \/ ~TrLegal)) => IsErr(result)

Wit_C3_UnusedScaleRejected ==
    /\ pc = "failed"
    /\ ~TrPresent /\ TpPresent /\ TpLen = 12 /\ PsPresent /\ PsLen = 4
    /\ IsErr(result)

\* C4: without a transformation, missing tie points are an error, a single
\* tie point group without a pixel scale is an error, and a single tie point
\* group never yields a variant without a pixel scale.
Thm_C4_MissingRequiredTag ==
    (Called /\ ~TrPresent) =>
      /\ ~TpPresent => IsErr(result)
      /\ (TpPresent /\ TpLen = 6 /\ ~PsPresent) => IsErr(result)
      /\ (TpPresent /\ TpLen = 6 /\ IsOk(result)) =>
            (PsPresent /\ result.val.variant = "TiePointAndPixelScale")

Wit_C4_SingleWithoutScale ==
    /\ pc = "failed"
    /\ ~TrPresent /\ TpPresent /\ TpLen = 6 /\ ~PsPresent
    /\ result = Err(FormatError(MsgPixelScaleMissing))

\* C8: the error returned is that of the first violated rule in the order
\* (1) scale length, (2) tie points empty, (3) tie points not divisible by 6,
\* (4) transformation length, (5) scale with transformation, (6) tie points
\* with transformation, (7) tie points missing, (8) scale missing for a
\* 6-value tie point tag; a malformed pixel scale masks every other error.
Violated(k) ==
    CASE k = 1 -> PsPresent /\ PsLen # 3
      [] k = 2 -> TpPresent /\ TpLen = 0
      [] k = 3 -> TpPresent /\ TpLen % 6 # 0
      [] k = 4 -> TrPresent /\ TrLen # 16
      [] k = 5 -> PsPresent /\ TrPresent
      [] k = 6 -> TpPresent /\ TrPresent
      [] k = 7 -> ~TpPresent /\ ~TrPresent
      [] k = 8 -> ~PsPresent /\ TpPresent /\ TpLen = 6

RuleMsg(k) ==
    CASE k = 1 -> MsgPixelScaleLen
      [] k = 2 -> MsgTiePointsEmpty
      [] k = 3 -> MsgTiePointsDiv
      [] k = 4 -> MsgTransformationLen
      [] k = 5 -> MsgPixelScaleWithTransformation
      [] k = 6 -> MsgTiePointsWithTransformation
      [] k = 7 -> MsgTiePointsMissing
      [] k = 8 -> MsgPixelScaleMissing

FirstViolated == CHOOSE k \in 1..8 : Violated(k) /\ \A j \in 1..(k - 1) : ~Violated(j)

Thm_C8_ValidationOrder ==
    (Called /\ \E k \in 1..8 : Violated(k)) =>
        result = Err(FormatError(RuleMsg(FirstViolated)))

Wit_C8_SeveralViolations ==
    /\ pc = "failed"
    /\ ~Violated(1) /\ Violated(2) /\ Violated(4) /\ Violated(6)
    /\ result = Err(FormatError(MsgTiePointsEmpty))

\* C9: an Ok AffineTransform holds 16 values, an Ok TiePointAndPixelScale
\* one tie point of 6 values and a scale of 3 values, an Ok TiePoints a
\* sequence of at least 12 values whose length is divisible by 6.
Thm_C9_ShapeInvariant ==
    IsOk(result) =>
      /\ Variant("AffineTransform") => Len(result.val.transformation) = 16
      /\ Variant("TiePointAndPixelScale") =>
            (Len(result.val.tie_point) = 6 /\ Len(result.val.pixel_scale) = 3)
      /\ Variant("TiePoints") =>
            /\ Len(result.val.tie_points) > 0
            /\ Len(result.val.tie_points) % 6 = 0
            /\ Len(result.val.tie_points) # 6

Wit_C9_TwoGroups ==
    /\ pc = "built"
    /\ Variant("TiePoints")
    /\ Len(result.val.tie_points) = 12
    /\ ~PsPresent

\* C10: from_tag_data never panics: whatever the three optional sequences
\* are, it returns Ok of a variant or Err of a FormatError(Format(..)); the
\* unwrap of the 6-element conversion never fails.
Thm_C10_TotalNoPanic ==
    Called =>
      /\ ~IsPanic(result)
      /\ \/ /\ IsOk(result)
            /\ result.val.variant \in {"AffineTransform", "TiePointAndPixelScale", "TiePoints"}
         \/ /\ IsErr(result)
            /\ result.err.kind = "TiffError::FormatError"
            /\ result.err.format = "TiffFormatError::Format"

Wit_C10_UnwrapReached ==
    /\ pc = "built"
    /\ Variant("TiePointAndPixelScale")
    /\ result.val.tie_point = LitTiePoint
    /\ result.val.pixel_scale = LitPixelScale

----------------------------------------------------------------------------
(* Properties of the transformer.                                          *)

\* C5: for TiePointAndPixelScale with tie point [I,J,K,X,Y,Z] and scale
\* [sx,sy,sz], transform_to_model([col,row]) returns
\* [X + (col - I) * sx, Y - (row - J) * sy].
Claim_C5_ToModelByTiePointAndScale ==
    (op = "transform_to_model" /\ Variant("TiePointAndPixelScale")) =>
        LET t == result.val.tie_point
            s == result.val.pixel_scale
        IN outcome = Returned(<<t[4] + (coordinate[1] - t[1]) * s[1],
                                t[5] - (coordinate[2] - t[2]) * s[2]>>)

\* C6: on degenerate data (singular matrix, zero scaleX or scaleY)
\* transform_to_raster reports a computation error; it neither panics nor
\* returns a coordinate.
Claim_C6_ToRasterReportsError ==
    (op = "transform_to_raster" /\ Degenerate) => outcome = ComputationError

\* C7: for non-degenerate AffineTransform and TiePointAndPixelScale values,
\* transform_to_raster(transform_to_model(p)) is within one pixel of p on
\* each axis.
Claim_C7_RoundTrip ==
    (op = "transform_to_model" /\ NonDegenerate) =>
        /\ outcome.tag = "Return"
        /\ LET back == transform_to_raster(result.val, outcome.val) IN
              /\ back.tag = "Return"
              /\ Abs(back.val[1] - coordinate[1]) <= 1
              /\ Abs(back.val[2] - coordinate[2]) <= 1

====
